---- MODULE Spec2Model ----
(***************************************************************************)
(* Model of my_streamlink.py: a curl command is read from standard input,  *)
(* parsed by parse_context and turned into a streamlink command by         *)
(* generate_streamlink_command.                                            *)
(*                                                                         *)
(* A Python str is modelled as a sequence of one-character strings, so     *)
(* that splitting, stripping, quoting and joining are computed character   *)
(* by character as the code computes them.                                 *)
(***************************************************************************)
EXTENDS Integers, Sequences, FiniteSets, TLC

(***************************************************************************)
(* str primitives                                                          *)
(***************************************************************************)

\* The characters str.strip() removes (ASCII part of str.isspace()).
str_whitespace == {" ", "\t", "\n", "\r", "\f"}

UpperLetters ==
  <<"A", "B", "C", "D", "E", "F", "G", "H", "I", "J", "K", "L", "M",
    "N", "O", "P", "Q", "R", "S", "T", "U", "V", "W", "X", "Y", "Z">>

LowerLetters ==
  <<"a", "b", "c", "d", "e", "f", "g", "h", "i", "j", "k", "l", "m",
    "n", "o", "p", "q", "r", "s", "t", "u", "v", "w", "x", "y", "z">>

Digits == {"0", "1", "2", "3", "4", "5", "6", "7", "8", "9"}

\* s[i:] with a 1-based start
Drop(s, i) == SubSeq(s, i, Len(s))

\* s.startswith(p)
StartsWith(s, p) == Len(s) >= Len(p) /\ SubSeq(s, 1, Len(p)) = p

\* s.endswith(p)
EndsWith(s, p) == Len(s) >= Len(p) /\ SubSeq(s, Len(s) - Len(p) + 1, Len(s)) = p

\* c in s, for a single character c
HasChar(s, c) == \E i \in 1..Len(s) : s[i] = c

\* p occurs in s at position i
OccursAt(s, p, i) == i + Len(p) - 1 <= Len(s) /\ SubSeq(s, i, i + Len(p) - 1) = p

\* p in s
Contains(s, p) == \E i \in 1..(Len(s) + 1) : OccursAt(s, p, i)

\* s.find(c) for a single character, 1-based; 0 when absent
Find(s, c) == IF HasChar(s, c) THEN CHOOSE i \in 1..Len(s) : s[i] = c /\ \A j \in 1..(i - 1) : s[j] # c
              ELSE 0

LowerChar(c) == IF \E i \in 1..26 : UpperLetters[i] = c
                THEN LowerLetters[CHOOSE i \in 1..26 : UpperLetters[i] = c]
                ELSE c

\* s.lower()
Lower(s) == [i \in 1..Len(s) |-> LowerChar(s[i])]

\* s.strip()
Strip(s) ==
  IF \A i \in 1..Len(s) : s[i] \in str_whitespace THEN <<>>
  ELSE LET first == CHOOSE i \in 1..Len(s) : s[i] \notin str_whitespace
                       /\ \A j \in 1..(i - 1) : s[j] \in str_whitespace
           last  == CHOOSE i \in 1..Len(s) : s[i] \notin str_whitespace
                       /\ \A j \in (i + 1)..Len(s) : s[j] \in str_whitespace
       IN SubSeq(s, first, last)

RECURSIVE Concat(_)
\* "".join(parts)
Concat(parts) == IF parts = <<>> THEN <<>> ELSE Head(parts) \o Concat(Tail(parts))

RECURSIVE Join(_, _)
\* sep.join(parts)
Join(sep, parts) ==
  IF parts = <<>> THEN <<>>
  ELSE IF Len(parts) = 1 THEN parts[1]
  ELSE parts[1] \o sep \o Join(sep, Tail(parts))

(***************************************************************************)
(* normalize_newlines                                                      *)
(***************************************************************************)

\* The replaced text: space, backslash, newline.
Continuation == <<" ", "\\", "\n">>

\* Mutant of normalize_newlines: str.replace with count 1, only the first
\* occurrence is replaced.
normalize_newlines_FirstOnly(multiline_text) ==
  LET t == multiline_text
      first == CHOOSE i \in 1..Len(t) : OccursAt(t, Continuation, i)
                 /\ \A j \in 1..(i - 1) : ~OccursAt(t, Continuation, j)
  IN IF Contains(t, Continuation)
     THEN SubSeq(t, 1, first) \o Drop(t, first + Len(Continuation))
     ELSE t

\* s.replace(Continuation, " ").  str.replace replaces the occurrences from
\* left to right without overlap; two occurrences of this text never overlap
\* (its only space is its first character), so every occurrence is replaced:
\* its first character becomes the space, its other two are dropped.
normalize_newlines(multiline_text) ==
  LET t == multiline_text
      dropped(i) == \E j \in {i - 1, i - 2} : j >= 1 /\ OccursAt(t, Continuation, j)
      kept == SelectSeq([i \in 1..Len(t) |-> i], LAMBDA i : ~dropped(i))
  IN [n \in 1..Len(kept) |-> IF OccursAt(t, Continuation, kept[n]) THEN " " ELSE t[kept[n]]]

(***************************************************************************)
(* shlex.split(text, posix=False)                                          *)
(***************************************************************************)

shlex_whitespace == {" ", "\t", "\r", "\n"}
shlex_quotes == {"'", "\""}

\* The first position >= i of s whose character is in set; Len(s) + 1 if none
FirstIn(s, i, set) ==
  IF \E j \in i..Len(s) : s[j] \in set
  THEN CHOOSE j \in i..Len(s) : s[j] \in set /\ \A k \in i..(j - 1) : s[k] \notin set
  ELSE Len(s) + 1

\* The first position >= i of s whose character is not in set; Len(s) + 1 if none
FirstNotIn(s, i, set) ==
  IF \E j \in i..Len(s) : s[j] \notin set
  THEN CHOOSE j \in i..Len(s) : s[j] \notin set /\ \A k \in i..(j - 1) : s[k] \in set
  ELSE Len(s) + 1

RECURSIVE ShlexRead(_, _, _)
\* shlex.read_token, once per token, with whitespace_split and without
\* comments.  Whitespace between tokens is skipped.  In non-POSIX mode a
\* token that starts with a quote keeps its quotes and ends at the closing
\* quote, whatever follows; any other token runs to the next whitespace, and a
\* quote inside it is an ordinary character.  A quote that is never closed
\* raises ValueError("No closing quotation"): ok = FALSE.
ShlexRead(s, i, out) ==
  LET start == FirstNotIn(s, i, shlex_whitespace)
      close == FirstIn(s, start + 1, {s[start]})
      stop  == FirstIn(s, start + 1, shlex_whitespace)
  IN IF start > Len(s) THEN [ok |-> TRUE, tokens |-> out]
     ELSE IF s[start] \in shlex_quotes
     THEN IF close > Len(s) THEN [ok |-> FALSE, tokens |-> <<>>]
          ELSE ShlexRead(s, close + 1, Append(out, SubSeq(s, start, close)))
     ELSE ShlexRead(s, stop + 1, Append(out, SubSeq(s, start, stop - 1)))

shlex_split(text) == ShlexRead(text, 1, <<>>)

(***************************************************************************)
(* parser = argparse.ArgumentParser() with its four arguments, and         *)
(* parser.parse_args(tokens)                                               *)
(***************************************************************************)

\* The option strings in registration order: -h/--help is added by
\* ArgumentParser() itself, the rest by add_argument.
parser_options ==
  << [option_string |-> <<"-", "h">>, dest |-> "help"],
     [option_string |-> <<"-", "-", "h", "e", "l", "p">>, dest |-> "help"],
     [option_string |-> <<"-", "H">>, dest |-> "header"],
     [option_string |-> <<"-", "-", "h", "e", "a", "d", "e", "r">>, dest |-> "header"],
     [option_string |-> <<"-", "-", "c", "o", "m", "p", "r", "e", "s", "s", "e", "d">>,
      dest |-> "compressed"] >>

\* The "--" argument: everything after it is positional.
DoubleDash == <<"-", "-">>

\* What argparse stores when "--" is the only string given for a value: an
\* empty list instead of a str.  The marker is no sequence of characters.
EmptyList == <<"[]">>

IsOptionString(s) == \E i \in 1..Len(parser_options) : parser_options[i].option_string = s

ActionOf(s) ==
  parser_options[CHOOSE i \in 1..Len(parser_options) : parser_options[i].option_string = s].dest

\* s.split(c, 1), for c in s
SplitOnce(s, c) == <<SubSeq(s, 1, Find(s, c) - 1), Drop(s, Find(s, c) + 1)>>

Positional ==
  [kind |-> "A", action |-> "none", option_string |-> <<>>, explicit_arg |-> <<>>,
   has_explicit |-> FALSE]

Optional(action, option_string, explicit_arg, has_explicit) ==
  [kind |-> "O", action |-> action, option_string |-> option_string,
   explicit_arg |-> explicit_arg, has_explicit |-> has_explicit]

Ambiguous ==
  [kind |-> "ambiguous", action |-> "none", option_string |-> <<>>, explicit_arg |-> <<>>,
   has_explicit |-> FALSE]

\* '^-\d+$|^-\d*\.\d+$'
negative_number_matcher(s) ==
  /\ Len(s) >= 2
  /\ s[1] = "-"
  /\ \/ \A i \in 2..Len(s) : s[i] \in Digits
     \/ \E d \in 2..(Len(s) - 1) :
          /\ s[d] = "."
          /\ \A i \in 2..(d - 1) : s[i] \in Digits
          /\ \A i \in (d + 1)..Len(s) : s[i] \in Digits

\* ArgumentParser._get_option_tuples: abbreviations of a long option, or a
\* short option with its argument attached.
get_option_tuples(arg) ==
  IF arg[2] = "-"
  THEN LET has == HasChar(arg, "=")
           prefix == IF has THEN SplitOnce(arg, "=")[1] ELSE arg
           explicit == IF has THEN SplitOnce(arg, "=")[2] ELSE <<>>
           matches == SelectSeq(parser_options,
                                LAMBDA o : StartsWith(o.option_string, prefix))
       IN [i \in 1..Len(matches) |->
             Optional(matches[i].dest, matches[i].option_string, explicit, has)]
  ELSE LET matches == SelectSeq(parser_options,
                                LAMBDA o : \/ o.option_string = SubSeq(arg, 1, 2)
                                           \/ StartsWith(o.option_string, arg))
       IN [i \in 1..Len(matches) |->
             IF matches[i].option_string = SubSeq(arg, 1, 2)
             THEN Optional(matches[i].dest, matches[i].option_string, Drop(arg, 3), TRUE)
             ELSE Optional(matches[i].dest, matches[i].option_string, <<>>, FALSE)]

\* ArgumentParser._parse_optional: is the string an option ("O"), and which,
\* or a positional argument ("A")?
parse_optional(arg) ==
  IF arg = <<>> THEN Positional
  ELSE IF arg[1] # "-" THEN Positional
  ELSE IF IsOptionString(arg) THEN Optional(ActionOf(arg), arg, <<>>, FALSE)
  ELSE IF Len(arg) = 1 THEN Positional
  ELSE IF HasChar(arg, "=") /\ IsOptionString(SplitOnce(arg, "=")[1])
       THEN Optional(ActionOf(SplitOnce(arg, "=")[1]), SplitOnce(arg, "=")[1],
                     SplitOnce(arg, "=")[2], TRUE)
  ELSE IF Len(get_option_tuples(arg)) > 1 THEN Ambiguous
  ELSE IF Len(get_option_tuples(arg)) = 1 THEN get_option_tuples(arg)[1]
  ELSE IF negative_number_matcher(arg) THEN Positional
  ELSE IF HasChar(arg, " ") THEN Positional
  ELSE Optional("none", arg, <<>>, FALSE)

\* The pattern of _parse_known_args: one classification per string, "-" for
\* the first "--" and "A" for everything after it.
Classify(tokens) ==
  [i \in 1..Len(tokens) |->
     IF \E j \in 1..(i - 1) : tokens[j] = DoubleDash THEN Positional
     ELSE IF tokens[i] = DoubleDash THEN [Positional EXCEPT !.kind = "-"]
     ELSE parse_optional(tokens[i])]

RECURSIVE consume_optional(_, _, _, _, _, _)
\* consume_optional of _parse_known_args for one option string.  helped: a -h
\* was already found in the same string (-hX is -h -X).  The result says what
\* the option does: "extra" (unknown option), "explicit" / "next" (a header
\* whose value is attached / is the next string), "flag" (--compressed),
\* "exit0" (help is printed, SystemExit(0)) or "exit2" (parser.error).
consume_optional(action, option_string, explicit_arg, has_explicit, helped, next_is_arg) ==
  IF action = "none" THEN "extra"
  ELSE IF has_explicit
  THEN IF action = "header" THEN (IF helped THEN "exit0" ELSE "explicit")
       ELSE IF option_string[2] # "-" /\ explicit_arg # <<>>
       THEN IF IsOptionString(<<"-", explicit_arg[1]>>)
            THEN consume_optional(ActionOf(<<"-", explicit_arg[1]>>), <<"-", explicit_arg[1]>>,
                                  Tail(explicit_arg), Tail(explicit_arg) # <<>>, TRUE,
                                  next_is_arg)
            ELSE "exit2"
       ELSE "exit2"
  ELSE IF action = "header"
       THEN (IF ~next_is_arg THEN "exit2" ELSE IF helped THEN "exit0" ELSE "next")
       ELSE IF action = "help" \/ helped THEN "exit0"
       ELSE "flag"

\* _get_values: the first "--" is removed from the strings of a value.
get_value(arg_string) == IF arg_string = DoubleDash THEN EmptyList ELSE arg_string

Failed(status) == [status |-> status, command |-> <<>>, url |-> <<>>, header |-> <<>>]

\* consume_positionals after the last option: the first positionals still
\* missing take one argument each; a "--" goes with the argument before or
\* after it; what is left over is extra.
FinalRun(tokens, cls, i, pos, header, extras) ==
  LET args == SelectSeq([j \in 1..(Len(tokens) - i + 1) |-> i + j - 1],
                        LAMBDA j : cls[j].kind = "A")
      k == IF 2 - Len(pos) < Len(args) THEN 2 - Len(pos) ELSE Len(args)
      has_dash == \E j \in i..Len(tokens) : cls[j].kind = "-"
      dash == CHOOSE j \in i..Len(tokens) : cls[j].kind = "-"
      b == Cardinality({g \in 1..Len(args) : args[g] < dash})
      absorbed == k >= 1 /\ b <= k
      value(g) == IF has_dash /\ absorbed /\ (b = g \/ (g = 1 /\ b = 0))
                  THEN tokens[args[g]]
                  ELSE get_value(tokens[args[g]])
      filled == pos \o [g \in 1..k |-> value(g)]
      left == extras \/ Len(args) > k \/ (has_dash /\ ~absorbed)
  IN IF Len(filled) < 2 \/ left THEN Failed("exit2")
     ELSE [status |-> "ok", command |-> filled[1], url |-> filled[2], header |-> header]

RECURSIVE ParseKnownArgs(_, _, _, _, _, _, _)
\* The loop of _parse_known_args up to the last option string (index last):
\* positionals and options are consumed alternately.
ParseKnownArgs(tokens, cls, last, i, pos, header, extras) ==
  IF i > last THEN FinalRun(tokens, cls, i, pos, header, extras)
  ELSE IF cls[i].kind = "A"
  THEN IF Len(pos) < 2
       THEN ParseKnownArgs(tokens, cls, last, i + 1, Append(pos, tokens[i]), header, extras)
       ELSE ParseKnownArgs(tokens, cls, last, i + 1, pos, header, TRUE)
  ELSE LET o == cls[i]
           next_is_arg == i + 1 <= Len(tokens) /\ cls[i + 1].kind = "A"
           what == consume_optional(o.action, o.option_string, o.explicit_arg,
                                    o.has_explicit, FALSE, next_is_arg)
       IN CASE what = "extra" ->
                 ParseKnownArgs(tokens, cls, last, i + 1, pos, header, TRUE)
            [] what = "explicit" ->
                 ParseKnownArgs(tokens, cls, last, i + 1, pos,
                                Append(header, get_value(o.explicit_arg)),
                                extras)
            [] what = "next" ->
                 ParseKnownArgs(tokens, cls, last, i + 2, pos,
                                Append(header, tokens[i + 1]), extras)
            [] what = "flag" ->
                 ParseKnownArgs(tokens, cls, last, i + 1, pos, header, extras)
            [] OTHER -> Failed(what)

\* parser.parse_args(tokens): status "ok" with the namespace, "exit0" (help)
\* or "exit2" (parser.error: ambiguous or unknown option, missing value,
\* missing positional, unrecognized arguments).
parse_args(tokens) ==
  LET cls == Classify(tokens)
      opts == {i \in 1..Len(tokens) : cls[i].kind = "O"}
      last == IF opts = {} THEN 0 ELSE CHOOSE i \in opts : \A j \in opts : j <= i
  IN IF \E i \in 1..Len(tokens) : cls[i].kind = "ambiguous" THEN Failed("exit2")
     ELSE ParseKnownArgs(tokens, cls, last, 1, <<>>, <<>>, FALSE)

(***************************************************************************)
(* parse_context                                                           *)
(***************************************************************************)

exclude_headers == <<<<"s", "e", "c", "-", "c", "h", "-", "u", "a">>,
                     <<"u", "s", "e", "r", "-", "a", "g", "e", "n", "t">>>>

\* s in xs, for a list xs
InList(s, xs) == \E i \in 1..Len(xs) : xs[i] = s

\* Mutant of StripUrlQuotes: the first and the last character are removed
\* whatever they are.
StripUrlQuotes_Unchecked(url) == SubSeq(url, 2, Len(url) - 1)

\* Lines 49-52: one leading and one trailing single quote are removed.
StripUrlQuotes(url) ==
  LET u1 == IF StartsWith(url, <<"'">>) THEN Tail(url) ELSE url
  IN IF EndsWith(u1, <<"'">>) THEN SubSeq(u1, 1, Len(u1) - 1) ELSE u1

\* Lines 47-52.  status: "ok", "ValueError" (shlex: no closing quotation),
\* "exit0" / "exit2" (SystemExit of parse_args), "AttributeError" (url is
\* not a str).
ParseCommandLine(curl_command) ==
  LET split == shlex_split(normalize_newlines(curl_command))
      parsed == parse_args(split.tokens)
  IN IF ~split.ok THEN Failed("ValueError")
     ELSE IF parsed.status # "ok" THEN parsed
     ELSE IF parsed.url = EmptyList THEN Failed("AttributeError")
     ELSE [parsed EXCEPT !.url = StripUrlQuotes(parsed.url)]

\* An OrderedDict is a sequence of <<key, value>> pairs with distinct keys.
Keys(d) == [i \in 1..Len(d) |-> d[i][1]]

\* Mutant of SetItem: an existing key is removed and inserted again at the end.
SetItem_MoveToEnd(d, key, value) ==
  Append(SelectSeq(d, LAMBDA e : e[1] # key), <<key, value>>)

\* Mutant of SetItem: keys are compared without regard to letter case.
SetItem_IgnoreCase(d, key, value) ==
  IF \E i \in 1..Len(d) : Lower(d[i][1]) = Lower(key)
  THEN [i \in 1..Len(d) |-> IF Lower(d[i][1]) = Lower(key) THEN <<d[i][1], value>> ELSE d[i]]
  ELSE Append(d, <<key, value>>)

\* d[key] = value: a new key is appended, an existing key keeps its place.
SetItem(d, key, value) ==
  IF InList(key, Keys(d))
  THEN [i \in 1..Len(d) |-> IF d[i][1] = key THEN <<key, value>> ELSE d[i]]
  ELSE Append(d, <<key, value>>)

\* Lines 57-58
HeaderKey(raw_key) == IF StartsWith(raw_key, <<"'">>) THEN Tail(raw_key) ELSE raw_key

\* Mutant of HeaderValue: the value is never wrapped in quotes.
HeaderValue_Unquoted(raw_value) ==
  Strip(IF EndsWith(raw_value, <<"'">>) THEN SubSeq(raw_value, 1, Len(raw_value) - 1)
        ELSE raw_value)

\* Lines 59-62, and the strip() of line 65
HeaderValue(raw_value) ==
  LET v1 == IF EndsWith(raw_value, <<"'">>) THEN SubSeq(raw_value, 1, Len(raw_value) - 1)
            ELSE raw_value
      v2 == IF HasChar(Strip(v1), " ") \/ HasChar(Strip(v1), "\"")
            THEN <<"'">> \o Strip(v1) \o <<"'">>
            ELSE v1
  IN Strip(v2)

\* Mutant of IsExcluded: the name is compared as it is written.
IsExcluded_CaseSensitive(header_key) == InList(header_key, exclude_headers)

\* Line 64
IsExcluded(header_key) == InList(Lower(header_key), exclude_headers)

\* Mutant of ProcessHeader: a header without a colon is skipped.
ProcessHeader_SkipMalformed(quoted_headers, curl_header) ==
  IF curl_header = EmptyList \/ ~HasChar(curl_header, ":")
  THEN [status |-> "ok", headers |-> quoted_headers]
  ELSE LET header_key == HeaderKey(SplitOnce(curl_header, ":")[1])
           header_value == HeaderValue(SplitOnce(curl_header, ":")[2])
       IN [status |-> "ok",
           headers |-> IF IsExcluded(header_key) THEN quoted_headers
                       ELSE SetItem(quoted_headers, header_key, header_value)]

\* Lines 56-65: one iteration of the loop.  status "AttributeError": the
\* header is not a str; "ValueError": it has no colon to split at.
ProcessHeader(quoted_headers, curl_header) ==
  IF curl_header = EmptyList THEN [status |-> "AttributeError", headers |-> quoted_headers]
  ELSE IF ~HasChar(curl_header, ":") THEN [status |-> "ValueError", headers |-> quoted_headers]
  ELSE LET header_key == HeaderKey(SplitOnce(curl_header, ":")[1])
           header_value == HeaderValue(SplitOnce(curl_header, ":")[2])
       IN [status |-> "ok",
           headers |-> IF IsExcluded(header_key) THEN quoted_headers
                       ELSE SetItem(quoted_headers, header_key, header_value)]

(***************************************************************************)
(* generate_streamlink_command                                             *)
(***************************************************************************)

RECURSIVE HeaderTokens_Colon(_)
\* Mutant of HeaderTokens: name and value are joined as in the curl header.
HeaderTokens_Colon(items) ==
  IF items = <<>> THEN <<>>
  ELSE << <<"-", "-", "h", "t", "t", "p", "-", "h", "e", "a", "d", "e", "r">>,
          items[1][1] \o <<":">> \o items[1][2] >> \o HeaderTokens_Colon(Tail(items))

RECURSIVE HeaderTokens(_)
\* Lines 82-83
HeaderTokens(items) ==
  IF items = <<>> THEN <<>>
  ELSE << <<"-", "-", "h", "t", "t", "p", "-", "h", "e", "a", "d", "e", "r">>,
          items[1][1] \o <<"=">> \o items[1][2] >> \o HeaderTokens(Tail(items))

generate_streamlink_command(parsed_context) ==
  LET tokens == << <<"s", "t", "r", "e", "a", "m", "l", "i", "n", "k">>,
                   parsed_context.url,
                   <<"b", "e", "s", "t">> >> \o HeaderTokens(parsed_context.headers)
  IN Join(<<" ">>, tokens)

(***************************************************************************)
(* main: the texts it prints                                               *)
(***************************************************************************)

PromptInputType ==
  <<"R", "e", "q", "u", "e", "s", "t", " ", "h", "e", "a", "d", "e", "r", ":", " ", "0", ",", " ", "c", "u", "r", "l", " ", "c", "o", "m", "m", "a", "n", "d", ":", " ", "1", " ", " ">>

PromptUrl ==
  <<"I", "n", "p", "u", "t", " ", "r", "e", "q", "u", "e", "s", "t", " ", "u", "r", "l", ":", " ">>

MsgInputHeaders ==
  <<"I", "n", "p", "u", "t", " ", "r", "e", "q", "u", "e", "s", "t", " ", "h", "e", "a", "d", "e", "r", "s", " ", "(", "E", "n", "d", ":", " ", "C", "t", "r", "l", "-", "z", ")">>

MsgInputCurl ==
  <<"I", "n", "p", "u", "t", " ", "c", "u", "r", "l", " ", "c", "o", "m", "m", "a", "n", "d", " ", "(", "E", "n", "d", ":", " ", "C", "t", "r", "l", "-", "z", ")">>

MsgNotProper ==
  <<"n", "o", "t", " ", "p", "r", "o", "p", "e", "r", " ", "i", "n", "p", "u", "t">>

\* What parse_args prints to standard output for -h/--help before it exits;
\* the text itself is argparse's and is not modelled.
HelpText == <<"usage">>

(***************************************************************************)
(* Standard input: the lines the user types.  Every line ends with its     *)
(* newline.  The first line answers the mode prompt.                       *)
(***************************************************************************)

\* The longest input: lines typed after the first line of the command (mode
\* "1") or after the URL (mode "0").
MaxLines == 3

\* Answers to the mode prompt
ModeLines ==
  { <<"0", "\n">>,
    <<"1", "\n">>,
    <<"2", "\n">>,
    <<"\n">> }

\* Mode "1": the first line of a pasted curl command
CurlFirstLines ==
  { <<"c", "u", "r", "l", " ", "'", "h", "t", "t", "p", ":", "/", "/", "x", "'", " ", "\\", "\n">>,
    <<"c", "u", "r", "l", " ", "h", "t", "t", "p", ":", "/", "/", "x", "'", " ", "-", "-", "c", "o", "m", "p", "r", "e", "s", "s", "e", "d", " ", "-", "H", " ", "'", "S", "E", "C", "-", "C", "H", "-", "U", "A", ":", " ", "\"", "z", "\"", "'", " ", "\\", "\n">>,
    <<"c", "u", "r", "l", " ", "\"", "h", "t", "t", "p", ":", "/", "/", "x", "\"", " ", "-", "H", " ", "\"", "U", "s", "e", "r", "-", "A", "g", "e", "n", "t", ":", " ", "k", "\"", " ", "\\", "\n">>,
    <<"c", "u", "r", "l", " ", "\\", "\n">> }

\* Mode "1": the following lines of a pasted curl command
CurlLines ==
  { <<"-", "H", " ", "'", "A", "c", "c", "e", "p", "t", ":", " ", "a", " ", "b", "'", " ", "\\", "\n">>,
    <<"-", "H", " ", "'", "A", "c", "c", "e", "p", "t", ":", " ", "e", "'", " ", "\\", "\n">>,
    <<"-", "H", " ", "'", "a", "c", "c", "e", "p", "t", ":", " ", "c", "'", " ", "\\", "\n">>,
    <<"-", "H", " ", "'", "U", "s", "e", "r", "-", "A", "g", "e", "n", "t", ":", " ", "x", " ", "y", "'", " ", "\\", "\n">>,
    <<"-", "H", " ", "'", "N", "o", "C", "o", "l", "o", "n", "'", " ", "\\", "\n">>,
    <<"-", "X", " ", "\\", "\n">>,
    <<"\\", "\n">> }

\* Mode "0": the URL typed at the second prompt
UrlLines ==
  { <<"h", "t", "t", "p", ":", "/", "/", "e", ".", "c", "o", "m", "\n">> }

\* Mode "0": the header lines typed after the URL
HeaderLines ==
  { <<"A", "c", "c", "e", "p", "t", ":", " ", "*", "/", "*", "\n">>,
    <<"B", ":", " ", "c", " ", "d", "\n">>,
    <<"U", "s", "e", "r", "-", "A", "g", "e", "n", "t", ":", " ", "x", " ", "y", "\n">>,
    <<"N", "o", "C", "o", "l", "o", "n", "\n">> }

\* All sequences over S of length at most n
SeqsUpTo(S, n) == UNION {[1..k -> S] : k \in 0..n}

\* What the user may type: a curl command in mode "1", a URL and header
\* lines in mode "0", anything after another answer, or nothing at all.
StdinInputs ==
  {<<<<"1", "\n">>, f>> \o r : f \in CurlFirstLines, r \in SeqsUpTo(CurlLines, MaxLines)}
  \cup {<<m, u>> \o r : m \in ModeLines \ {<<"1", "\n">>}, u \in UrlLines,
                        r \in SeqsUpTo(HeaderLines, MaxLines)}
  \cup {<<m>> : m \in ModeLines}
  \cup {<<>>}

(***************************************************************************)
(* main                                                                    *)
(***************************************************************************)

VARIABLES
  pc,                 \* the line of main (or of parse_context) to run next
  stdin,              \* the lines of standard input not read yet
  stdout,             \* the texts printed so far, in order
  clipboard,          \* the texts passed to clipboard.copy, in order
  exception,          \* the exception that ended the run, "none" otherwise
  input_type,         \* main: input_type
  url,                \* main: url (mode "0")
  curl_command,       \* main: curl_command
  parsed_args,        \* parse_context: parsed_args
  header_index,       \* parse_context: position of the for loop in parsed_args.header
  quoted_headers,     \* parse_context: quoted_headers
  result,             \* main: result
  streamlink_command  \* main: streamlink_command

vars == <<pc, stdin, stdout, clipboard, exception, input_type, url, curl_command,
          parsed_args, header_index, quoted_headers, result, streamlink_command>>

\* The value of a text variable that is not assigned yet, and the same for
\* parsed_args and result.
Unset == <<"unset">>
NoArgs == [status |-> "unset", command |-> Unset, url |-> Unset, header |-> <<>>]
NoResult == [url |-> Unset, headers |-> <<>>]

\* input(prompt): the next line without its newline
InputLine(line) == IF EndsWith(line, <<"\n">>) THEN SubSeq(line, 1, Len(line) - 1) ELSE line

\* line.split("\n")[0]
BeforeNewline(line) == SubSeq(line, 1, FirstIn(line, 1, {"\n"}) - 1)

Init ==
  /\ pc = "l112"
  /\ stdin \in StdinInputs
  /\ stdout = <<>>
  /\ clipboard = <<>>
  /\ exception = "none"
  /\ input_type = Unset
  /\ url = Unset
  /\ curl_command = Unset
  /\ parsed_args = NoArgs
  /\ header_index = 0
  /\ quoted_headers = <<>>
  /\ result = NoResult
  /\ streamlink_command = Unset

\* An unhandled exception or SystemExit ends the run.
Raise(e) == pc' = "raised" /\ exception' = e

\* Line 112: input_type = input(...)
ReadInputType ==
  /\ pc = "l112"
  /\ stdout' = Append(stdout, PromptInputType)
  /\ IF stdin = <<>>
     THEN /\ Raise("EOFError")
          /\ UNCHANGED <<stdin, input_type>>
     ELSE /\ input_type' = InputLine(Head(stdin))
          /\ stdin' = Tail(stdin)
          /\ pc' = "l113"
          /\ UNCHANGED exception
  /\ UNCHANGED <<clipboard, url, curl_command, parsed_args, header_index, quoted_headers,
                 result, streamlink_command>>

\* Lines 113-115: mode "0", the URL is read
ReadUrl ==
  /\ pc = "l113"
  /\ input_type = <<"0">>
  /\ IF stdin = <<>>
     THEN /\ Raise("EOFError")
          /\ stdout' = Append(stdout, PromptUrl)
          /\ UNCHANGED <<stdin, url>>
     ELSE /\ url' = InputLine(Head(stdin))
          /\ stdin' = Tail(stdin)
          /\ stdout' = stdout \o <<PromptUrl, MsgInputHeaders>>
          /\ pc' = "l116"
          /\ UNCHANGED exception
  /\ UNCHANGED <<clipboard, input_type, curl_command, parsed_args, header_index,
                 quoted_headers, result, streamlink_command>>

\* Lines 116-121: mode "0", the rest of standard input is read, its first line
\* is left out and the curl command is put together
ReadHeaders ==
  /\ pc = "l116"
  /\ LET lines == IF stdin = <<>> THEN <<>> ELSE Tail(stdin)
         commands == << <<"c", "u", "r", "l", " ", "'">> \o url \o <<"'">> >>
                     \o [i \in 1..Len(lines) |->
                           <<"-", "H", " ", "'">> \o BeforeNewline(lines[i]) \o <<"'">>]
     IN curl_command' = Concat(commands)
  /\ stdin' = <<>>
  /\ pc' = "l131"
  /\ UNCHANGED <<stdout, clipboard, exception, input_type, url, parsed_args, header_index,
                 quoted_headers, result, streamlink_command>>

\* Lines 123-126: mode "1", the curl command is the whole rest of standard input
ReadCurl ==
  /\ pc = "l113"
  /\ input_type = <<"1">>
  /\ stdout' = Append(stdout, MsgInputCurl)
  /\ curl_command' = Concat(stdin)
  /\ stdin' = <<>>
  /\ pc' = "l131"
  /\ UNCHANGED <<clipboard, exception, input_type, url, parsed_args, header_index,
                 quoted_headers, result, streamlink_command>>

\* Mutant of NotProperInput: the return is missing and main goes on to line
\* 131, where curl_command has no value.
NotProperInput_NoReturn ==
  /\ pc = "l113"
  /\ input_type \notin {<<"0">>, <<"1">>}
  /\ stdout' = Append(stdout, MsgNotProper)
  /\ Raise("UnboundLocalError")
  /\ UNCHANGED <<stdin, clipboard, input_type, url, curl_command, parsed_args,
                 header_index, quoted_headers, result, streamlink_command>>

\* Lines 127-129: any other answer
NotProperInput ==
  /\ pc = "l113"
  /\ input_type \notin {<<"0">>, <<"1">>}
  /\ stdout' = Append(stdout, MsgNotProper)
  /\ pc' = "returned"
  /\ UNCHANGED <<stdin, clipboard, exception, input_type, url, curl_command, parsed_args,
                 header_index, quoted_headers, result, streamlink_command>>

\* Line 131 calls parse_context; its lines 47-54
ParseArgs ==
  /\ pc = "l131"
  /\ LET parsed == ParseCommandLine(curl_command)
     IN IF parsed.status = "ok"
        THEN /\ parsed_args' = parsed
             /\ quoted_headers' = <<>>
             /\ header_index' = 1
             /\ pc' = "l55"
             /\ UNCHANGED <<exception, stdout>>
        ELSE /\ Raise(IF parsed.status \in {"exit0", "exit2"} THEN "SystemExit" ELSE parsed.status)
             /\ stdout' = IF parsed.status = "exit0" THEN Append(stdout, HelpText) ELSE stdout
             /\ UNCHANGED <<parsed_args, quoted_headers, header_index>>
  /\ UNCHANGED <<stdin, clipboard, input_type, url, curl_command, result, streamlink_command>>

\* Lines 55-65: one iteration of the loop over parsed_args.header
ParseHeader ==
  /\ pc = "l55"
  /\ header_index <= Len(parsed_args.header)
  /\ LET step == ProcessHeader(quoted_headers, parsed_args.header[header_index])
     IN IF step.status = "ok"
        THEN /\ quoted_headers' = step.headers
             /\ header_index' = header_index + 1
             /\ UNCHANGED <<pc, exception>>
        ELSE /\ Raise(step.status)
             /\ UNCHANGED <<quoted_headers, header_index>>
  /\ UNCHANGED <<stdin, stdout, clipboard, input_type, url, curl_command, parsed_args,
                 result, streamlink_command>>

\* Line 67, and the assignment of line 131
ParseReturn ==
  /\ pc = "l55"
  /\ header_index > Len(parsed_args.header)
  /\ result' = [url |-> parsed_args.url, headers |-> quoted_headers]
  /\ pc' = "l132"
  /\ UNCHANGED <<stdin, stdout, clipboard, exception, input_type, url, curl_command,
                 parsed_args, header_index, quoted_headers, streamlink_command>>

\* Line 132
Generate ==
  /\ pc = "l132"
  /\ streamlink_command' = generate_streamlink_command(result)
  /\ pc' = "l133"
  /\ UNCHANGED <<stdin, stdout, clipboard, exception, input_type, url, curl_command,
                 parsed_args, header_index, quoted_headers, result>>

\* Line 133
PrintCommand ==
  /\ pc = "l133"
  /\ stdout' = Append(stdout, streamlink_command)
  /\ pc' = "l135"
  /\ UNCHANGED <<stdin, clipboard, exception, input_type, url, curl_command, parsed_args,
                 header_index, quoted_headers, result, streamlink_command>>

\* Line 135
ClipboardCopy ==
  /\ pc = "l135"
  /\ clipboard' = Append(clipboard, streamlink_command)
  /\ pc' = "returned"
  /\ UNCHANGED <<stdin, stdout, exception, input_type, url, curl_command, parsed_args,
                 header_index, quoted_headers, result, streamlink_command>>

Next ==
  \/ ReadInputType
  \/ ReadUrl
  \/ ReadHeaders
  \/ ReadCurl
  \/ NotProperInput
  \/ ParseArgs
  \/ ParseHeader
  \/ ParseReturn
  \/ Generate
  \/ PrintCommand
  \/ ClipboardCopy

Spec == Init /\ [][Next]_vars

(***************************************************************************)
(* generate_streamlink_command on its own: any ParsedContext, not only     *)
(* those parse_context returns                                             *)
(***************************************************************************)

\* The largest number of headers of a ParsedContext
MaxGenHeaders == 2

\* URLs of a ParsedContext
GenUrls ==
  { <<>>,
    <<"h", "t", "t", "p", ":", "/", "/", "x">>,
    <<"a", " ", "b">> }

\* Header names of a ParsedContext
GenKeys ==
  { <<>>,
    <<"A", "c", "c", "e", "p", "t">>,
    <<"a", "c", "c", "e", "p", "t">>,
    <<"k", "=", "1">> }

\* Header values of a ParsedContext
GenValues ==
  { <<>>,
    <<"v">>,
    <<"'", "x", " ", "y", "'">>,
    <<"=", "-", "-", "h", "t", "t", "p", "-", "h", "e", "a", "d", "e", "r", " ", "z">> }

\* The ordered mappings with at most MaxGenHeaders keys
GenHeaders ==
  {d \in SeqsUpTo(GenKeys \X GenValues, MaxGenHeaders) :
     \A i, j \in 1..Len(d) : i # j => d[i][1] # d[j][1]}

GenInit ==
  /\ pc = "l132"
  /\ result \in [url : GenUrls, headers : GenHeaders]
  /\ stdin = <<>>
  /\ stdout = <<>>
  /\ clipboard = <<>>
  /\ exception = "none"
  /\ input_type = Unset
  /\ url = Unset
  /\ curl_command = Unset
  /\ parsed_args = NoArgs
  /\ header_index = 0
  /\ quoted_headers = <<>>
  /\ streamlink_command = Unset

GenNext ==
  \/ Generate
  \/ PrintCommand
  \/ ClipboardCopy

SpecGen == GenInit /\ [][GenNext]_vars

(***************************************************************************)
(* Properties                                                              *)
(***************************************************************************)

\* The header names the specification excludes.
ExcludedNames ==
  { <<"s", "e", "c", "-", "c", "h", "-", "u", "a">>,
    <<"u", "s", "e", "r", "-", "a", "g", "e", "n", "t">> }

\* A curl header argument 'Name: value' as the tokenizer delivers it: its
\* name is the text before the first colon, without a leading single quote.
NameOf(h) ==
  LET k == SubSeq(h, 1, Find(h, ":") - 1)
  IN IF k # <<>> /\ k[1] = "'" THEN Tail(k) ELSE k

\* Its value: the text after the first colon, without a trailing single
\* quote, trimmed.
TrimmedValueOf(h) ==
  LET v == Drop(h, Find(h, ":") + 1)
  IN Strip(IF v # <<>> /\ v[Len(v)] = "'" THEN SubSeq(v, 1, Len(v) - 1) ELSE v)

\* The value as the specification says it is emitted.
EmittedValueOf(h) ==
  IF HasChar(TrimmedValueOf(h), " ") \/ HasChar(TrimmedValueOf(h), "\"")
  THEN <<"'">> \o TrimmedValueOf(h) \o <<"'">>
  ELSE TrimmedValueOf(h)

EntryMark == <<" ", "-", "-", "h", "t", "t", "p", "-", "h", "e", "a", "d", "e", "r", " ">>

\* The text of one --http-header entry of a streamlink command
Entry(name, value) == EntryMark \o name \o <<"=">> \o value

\* The command has the entry e: the text of e, followed by the next entry or
\* by the end of the command.
EmitsEntry(command, e) ==
  \E i \in 1..Len(command) :
    /\ OccursAt(command, e, i)
    /\ \/ i + Len(e) - 1 = Len(command)
       \/ OccursAt(command, EntryMark, i + Len(e))

\* parse_context has parsed the arguments, and how many header arguments its
\* loop has processed.
ArgsParsed == parsed_args.status = "ok"
Processed == header_index - 1

\* The processed header arguments that are not excluded, those among them
\* that are the first / the last with their name.
RetainedUpTo(n) ==
  {i \in 1..n : Lower(NameOf(parsed_args.header[i])) \notin ExcludedNames}

FirstSeenUpTo(n) ==
  {i \in RetainedUpTo(n) :
     \A j \in RetainedUpTo(n) :
       j < i => NameOf(parsed_args.header[j]) # NameOf(parsed_args.header[i])}

LastSeenUpTo(n) ==
  {i \in RetainedUpTo(n) :
     \A j \in RetainedUpTo(n) :
       j > i => NameOf(parsed_args.header[j]) # NameOf(parsed_args.header[i])}

LastOf(n, i) ==
  CHOOSE j \in LastSeenUpTo(n) : NameOf(parsed_args.header[j]) = NameOf(parsed_args.header[i])

\* The mapping the specification describes after n header arguments: one key
\* per name at its first-seen position, with the value of its last occurrence.
ExpectedMapping(n) ==
  LET order == SelectSeq([i \in 1..n |-> i], LAMBDA i : i \in FirstSeenUpTo(n))
  IN [m \in 1..Len(order) |->
        << NameOf(parsed_args.header[order[m]]),
           EmittedValueOf(parsed_args.header[LastOf(n, order[m])]) >>]

\* The command the specification describes for a ParsedContext.
ExpectedCommand(parsed_context) ==
  <<"s", "t", "r", "e", "a", "m", "l", "i", "n", "k", " ">>
  \o parsed_context.url
  \o <<" ", "b", "e", "s", "t">>
  \o Concat([i \in 1..Len(parsed_context.headers) |->
               Entry(parsed_context.headers[i][1], parsed_context.headers[i][2])])

\* A streamlink command was printed.
CommandPrinted ==
  \E i \in 1..Len(stdout) : StartsWith(stdout[i], <<"s", "t", "r", "e", "a", "m", "l", "i", "n", "k", " ">>)

Generated == streamlink_command # Unset

\* C1: a header argument whose name, lowercased, is sec-ch-ua or user-agent
\* has no --http-header entry in the generated command, whatever its value
\* and the letter case of its name.
C1_ExcludedHeadersAbsent ==
  (ArgsParsed /\ Generated) =>
    \A i \in 1..Len(parsed_args.header) :
      Lower(NameOf(parsed_args.header[i])) \in ExcludedNames =>
        /\ ~Contains(streamlink_command,
                     EntryMark \o NameOf(parsed_args.header[i]) \o <<"=">>)
        /\ ~InList(NameOf(parsed_args.header[i]), Keys(result.headers))

C1_Witness ==
  /\ pc = "returned"
  /\ clipboard # <<>>
  /\ Len(result.headers) >= 1
  /\ \E i \in 1..Len(parsed_args.header) :
       /\ Lower(NameOf(parsed_args.header[i])) \in ExcludedNames
       /\ NameOf(parsed_args.header[i]) \notin ExcludedNames

\* C2: a retained header whose trimmed value contains a space is emitted as
\* name='<trimmed value>', in one pair of single quotes; one whose trimmed
\* value has neither a space nor a double quote is emitted as
\* name=<trimmed value>.
C2_ValueQuoting ==
  (ArgsParsed /\ Generated) =>
    \A i \in LastSeenUpTo(Len(parsed_args.header)) :
      LET name == NameOf(parsed_args.header[i])
          value == TrimmedValueOf(parsed_args.header[i])
      IN /\ HasChar(value, " ") =>
              EmitsEntry(streamlink_command, Entry(name, <<"'">> \o value \o <<"'">>))
         /\ (~HasChar(value, " ") /\ ~HasChar(value, "\"")) =>
              EmitsEntry(streamlink_command, Entry(name, value))

C2_Witness ==
  /\ pc = "returned"
  /\ clipboard # <<>>
  /\ \E i, j \in LastSeenUpTo(Len(parsed_args.header)) :
       /\ HasChar(TrimmedValueOf(parsed_args.header[i]), " ")
       /\ ~HasChar(TrimmedValueOf(parsed_args.header[j]), " ")
       /\ ~HasChar(TrimmedValueOf(parsed_args.header[j]), "\"")

\* The curl command main would put together if it used every line typed
\* after the URL: curl '<url>' and one -H '<line>' per line.
ReferenceCommand(u, lines) ==
  Join(<<" ">>, << <<"c", "u", "r", "l", " ", "'">> \o u \o <<"'">> >>
                \o [i \in 1..Len(lines) |->
                      <<"-", "H", " ", "'">> \o BeforeNewline(lines[i]) \o <<"'">>])

\* C3: in mode "0" the synthesized curl command is equivalent to curl '<u>'
\* followed by one -H '<line>' for every header line typed after the URL, in
\* the order typed.
C3_EveryTypedHeaderLine ==
  [][pc = "l116" =>
       shlex_split(curl_command').tokens = shlex_split(ReferenceCommand(url, stdin)).tokens]_vars

\* The curl command has one of the defects of the error taxonomy: a quote
\* that is never closed, arguments parse_args rejects (an unknown option, a
\* missing URL, ...), or a header argument without a colon.
Defective(command) ==
  LET split == shlex_split(normalize_newlines(command))
      parsed == parse_args(split.tokens)
  IN \/ ~split.ok
     \/ parsed.status = "exit2"
     \/ /\ parsed.status = "ok"
        /\ \E i \in 1..Len(parsed.header) : ~HasChar(parsed.header[i], ":")

\* C4: the streamlink command is printed and copied only after parse_context
\* has returned; with a defective curl command the run never gets past
\* parse_context, prints no command and writes nothing to the clipboard (a
\* run that got further, or has printed, generated or copied a command, has
\* no defective curl command).
C4_NoOutputUnlessParsed ==
  /\ (CommandPrinted \/ clipboard # <<>>) =>
       (pc \in {"l135", "returned"} /\ exception = "none" /\ result # NoResult)
  /\ (pc \notin {"l112", "l113", "l116", "l131", "l55", "raised"}
        \/ CommandPrinted \/ clipboard # <<>> \/ Generated) =>
       (curl_command # Unset => ~Defective(curl_command))

C4_Witness ==
  /\ pc = "raised"
  /\ exception = "ValueError"
  /\ ArgsParsed
  /\ Processed >= 2
  /\ Len(quoted_headers) >= 1
  /\ ~HasChar(parsed_args.header[header_index], ":")

\* The URL argument as parse_args returns it, before its quotes are removed
RawUrl == parse_args(shlex_split(normalize_newlines(curl_command)).tokens).url

\* C5: a URL token '<u>' gives url = <u>: one leading and one trailing single
\* quote are removed and nothing else; without a leading (trailing) quote the
\* first (last) character is kept.
C5_UrlQuotes ==
  ArgsParsed =>
    LET raw == RawUrl
        n == Len(raw)
    IN /\ (n >= 2 /\ raw[1] = "'" /\ raw[n] = "'") => parsed_args.url = SubSeq(raw, 2, n - 1)
       /\ (n >= 1 /\ raw[1] # "'" /\ raw[n] = "'") => parsed_args.url = SubSeq(raw, 1, n - 1)
       /\ (n >= 1 /\ raw[1] # "'" /\ raw[n] # "'") => parsed_args.url = raw

C5_Witness ==
  /\ ArgsParsed
  /\ Len(RawUrl) >= 3
  /\ RawUrl[1] = "'"
  /\ RawUrl[Len(RawUrl)] = "'"
  /\ result.url = SubSeq(RawUrl, 2, Len(RawUrl) - 1)

\* C6 as stated: normalize_newlines applied twice equals normalize_newlines
\* applied once, for every text (here: every curl command parse_context is
\* called with).
C6_Idempotent ==
  pc \in {"l131", "l55"} =>
    normalize_newlines(normalize_newlines(curl_command)) = normalize_newlines(curl_command)

\* A continuation (space, backslash, newline) immediately followed by
\* another backslash-newline
ChainedContinuation == Continuation \o <<"\\", "\n">>

\* C6: normalize_newlines applied twice equals normalize_newlines applied
\* once, for every text in which no space-backslash-newline is immediately
\* followed by another backslash-newline.
C6_IdempotentUnlessChained ==
  (pc \in {"l131", "l55"} /\ ~Contains(curl_command, ChainedContinuation)) =>
    normalize_newlines(normalize_newlines(curl_command)) = normalize_newlines(curl_command)

C6_Witness ==
  /\ pc = "l55"
  /\ ArgsParsed
  /\ ~Contains(curl_command, ChainedContinuation)
  /\ \E i, j \in 1..Len(curl_command) :
       i # j /\ OccursAt(curl_command, Continuation, i) /\ OccursAt(curl_command, Continuation, j)
  /\ ~Contains(normalize_newlines(curl_command), Continuation)

\* C7: generate_streamlink_command returns, for every ParsedContext, exactly
\* "streamlink <url> best" followed by " --http-header <name>=<value>" for
\* each header in the mapping's order, and leaves the ParsedContext as it is.
C7_GenerateExact ==
  [][pc = "l132" =>
       /\ pc' = "l133"
       /\ result' = result
       /\ streamlink_command' = ExpectedCommand(result)]_vars

C7_Witness ==
  /\ pc = "l133"
  /\ Len(result.headers) = MaxGenHeaders
  /\ streamlink_command = ExpectedCommand(result)
  /\ result.url \in GenUrls

\* C8: after an answer to the mode prompt other than "0" or "1" main prints
\* the error message and returns: it reads nothing more, parses and generates
\* nothing, prints no command and leaves the clipboard alone.
C8_NotProperReturns ==
  [][(input_type # Unset /\ input_type \notin {<<"0">>, <<"1">>}) =>
       /\ pc = "l113"
       /\ pc' = "returned"
       /\ exception' = "none"
       /\ stdin' = stdin
       /\ stdout' = Append(stdout, MsgNotProper)
       /\ clipboard' = <<>>
       /\ curl_command' = Unset
       /\ parsed_args' = NoArgs
       /\ result' = NoResult
       /\ streamlink_command' = Unset]_vars

C8_Witness ==
  /\ pc = "returned"
  /\ input_type \notin {<<"0">>, <<"1">>}
  /\ stdin # <<>>
  /\ stdout = <<PromptInputType, MsgNotProper>>

\* C9: after any prefix of the header arguments the mapping has unique keys,
\* in the order of each name's first retained occurrence, each with the value
\* of its latest occurrence; the generated command lists them so.
C9_OrderedMapping ==
  ArgsParsed =>
    /\ \A i, j \in 1..Len(quoted_headers) :
         i # j => quoted_headers[i][1] # quoted_headers[j][1]
    /\ quoted_headers = ExpectedMapping(Processed)
    /\ Generated =>
         streamlink_command =
           ExpectedCommand([url |-> parsed_args.url,
                            headers |-> ExpectedMapping(Len(parsed_args.header))])

C9_Witness ==
  /\ pc = "l55"
  /\ Len(quoted_headers) >= 2
  /\ \E i, j, k \in RetainedUpTo(Processed) :
       /\ i < j /\ j < k
       /\ NameOf(parsed_args.header[i]) = NameOf(parsed_args.header[k])
       /\ NameOf(parsed_args.header[i]) # NameOf(parsed_args.header[j])
       /\ EmittedValueOf(parsed_args.header[i]) # EmittedValueOf(parsed_args.header[k])
       /\ quoted_headers[1] = << NameOf(parsed_args.header[i]),
                                 EmittedValueOf(parsed_args.header[k]) >>

\* Two processed, retained header arguments whose names differ only in letter
\* case
CaseVariants(i, j) ==
  /\ NameOf(parsed_args.header[i]) # NameOf(parsed_args.header[j])
  /\ Lower(NameOf(parsed_args.header[i])) = Lower(NameOf(parsed_args.header[j]))

\* The position of a key in the mapping
PositionOf(d, key) == CHOOSE m \in 1..Len(d) : d[m][1] = key

\* C10: names are de-duplicated as written and excluded without regard to
\* letter case: two retained headers whose names differ only in letter case
\* are separate entries, each at its first-seen position with its own value,
\* and both are in the generated command.
C10_CaseSensitiveKeys ==
  ArgsParsed =>
    \A i, j \in FirstSeenUpTo(Processed) :
      (i < j /\ CaseVariants(i, j)) =>
        LET ni == NameOf(parsed_args.header[i])
            nj == NameOf(parsed_args.header[j])
            vi == EmittedValueOf(parsed_args.header[LastOf(Processed, i)])
            vj == EmittedValueOf(parsed_args.header[LastOf(Processed, j)])
        IN /\ InList(<<ni, vi>>, quoted_headers)
           /\ InList(<<nj, vj>>, quoted_headers)
           /\ PositionOf(quoted_headers, ni) < PositionOf(quoted_headers, nj)
           /\ (Generated /\ Processed = Len(parsed_args.header)) =>
                /\ EmitsEntry(streamlink_command, Entry(ni, vi))
                /\ EmitsEntry(streamlink_command, Entry(nj, vj))

C10_Witness ==
  /\ pc = "returned"
  /\ clipboard # <<>>
  /\ \E i, j \in FirstSeenUpTo(Processed) :
       /\ i < j
       /\ CaseVariants(i, j)
       /\ EmittedValueOf(parsed_args.header[LastOf(Processed, i)])
            # EmittedValueOf(parsed_args.header[LastOf(Processed, j)])

====
